---- MODULE Spec2Model ----
(***************************************************************************)
(* Model of the frame-to-stylesheet encoder of keyframed-videos (latest    *)
(* revision of generate.mjs): the AnimationData model, its concurrent      *)
(* population by processVideoFrames / processFrameData, the keyframe pass  *)
(* of AnimationData.generateCSS, the run encoder createLinearGradient and  *)
(* the color shortening of minimizeHexColor.                               *)
(*                                                                         *)
(* Representation                                                          *)
(*   JS array     function whose domain is the set of populated 0-based    *)
(*                indices; its length is the greatest index plus one       *)
(*   JS number    the exact rational <<numerator, denominator>> in lowest  *)
(*                terms (the frame counts and widths used avoid the        *)
(*                multiples of 40, where a double lands just below a       *)
(*                rounding tie)                                            *)
(*   hex text     sequence of hex digits 0..15; Comma stands for ","       *)
(***************************************************************************)
EXTENDS Integers, Sequences, FiniteSets, TLC

----------------------------------------------------------------------------
(* Bounds of the explored inputs *)

MaxFrames == 3       \* frame count of the exhaustively enumerated animations
MaxWidth == 4        \* width of the exhaustively enumerated rows
MaxPeriod == 3       \* length of the static stretches in the long animations
MaxPrecision == 1    \* finite precisions 0..MaxPrecision, and -1 (unlimited)
MaxTasks == 3        \* frame files handed to processVideoFrames
MaxConcurrent == 2   \* maxConcurrentFrames
MaxHexDigit == 1     \* greatest hex digit of the enumerated colorHex strings
MaxBytes == 7        \* length of the decoded buffers of any length

\* long animations and wide rows: the percentages of neighbours round together
LongCounts == {101, 150, 201}
LongRuns == {201, 250}

Precisions == {-1} \cup (0 .. MaxPrecision)

\* RGB byte triples of the pixels fed to the encoder
Palette == { <<17, 17, 17>>, <<33, 17, 17>>, <<17, 18, 17>> }

----------------------------------------------------------------------------
(* JS arrays *)

Length(arr) ==
  IF DOMAIN arr = {} THEN 0
  ELSE (CHOOSE m \in DOMAIN arr :
          (m + 1) \notin DOMAIN arr /\ \A j \in DOMAIN arr : j <= m) + 1

SetAt(arr, k, v) ==
  [j \in (DOMAIN arr) \cup {k} |-> IF j = k THEN v ELSE arr[j]]

EmptyArray == [j \in {} |-> 0]

\* a TLA+ sequence as a dense JS array
ArrayOf(s) == [j \in 0 .. (Len(s) - 1) |-> s[j + 1]]

----------------------------------------------------------------------------
(* JS numbers *)

RECURSIVE GCD(_, _)
GCD(a, b) == IF b = 0 THEN a ELSE GCD(b, a % b)

\* the number num / den
Num(num, den) == LET g == GCD(num, den) IN <<num \div g, den \div g>>

RECURSIVE Pow10(_)
Pow10(p) == IF p = 0 THEN 1 ELSE 10 * Pow10(p - 1)

\* (num / den).toFixed(p): the digits of the decimal text, as the integer
\* closest to num / den * 10^p, the larger one on a tie
toFixed(num, den, p) == (2 * num * Pow10(p) + den) \div (2 * den)

\* parseFloat of a toFixed text with p decimals
parseFloat(digits, p) == Num(digits, Pow10(p))

Less(a, b) == a[1] * b[2] < b[1] * a[2]

----------------------------------------------------------------------------
(* Colors *)

Comma == 16

\* byte.toString(16).padStart(2, "0")
toHex2(byte) == << byte \div 16, byte % 16 >>

\* minimizeHexColor that compares the digits of the first two channels only
minimizeHexColorTwoChannels(hexColor) ==
  IF hexColor[1] = hexColor[2] /\ hexColor[3] = hexColor[4]
  THEN << hexColor[1], hexColor[3], hexColor[5] >>
  ELSE hexColor

minimizeHexColor(hexColor) ==
  IF hexColor[1] = hexColor[2] /\ hexColor[3] = hexColor[4] /\
     hexColor[5] = hexColor[6]
  THEN << hexColor[1], hexColor[3], hexColor[5] >>
  ELSE hexColor

----------------------------------------------------------------------------
(* createLinearGradient *)

\* mergeStep that opens a run without counting its first pixel
mergeStepCountFromZero(acc, color, i) ==
  IF i = 0 \/ color # acc[Len(acc)].color
  THEN Append(acc, [color |-> color, count |-> 0])
  ELSE [acc EXCEPT ![Len(acc)].count = @ + 1]

\* the callback of colorArray.reduce at index i
mergeStep(acc, color, i) ==
  IF i = 0 \/ color # acc[Len(acc)].color
  THEN Append(acc, [color |-> color, count |-> 1])
  ELSE [acc EXCEPT ![Len(acc)].count = @ + 1]

\* colorArray.reduce over the indices lo .. hi - 1, in index order; the range
\* is halved and the first half evaluated before the second one starts, only
\* to keep the evaluation shallow
RECURSIVE reduceMerge(_, _, _, _)
reduceMerge(colorArray, lo, hi, acc) ==
  IF hi <= lo THEN acc
  ELSE IF hi = lo + 1 THEN mergeStep(acc, colorArray[lo], lo)
  ELSE LET mid == (lo + hi) \div 2
           left == reduceMerge(colorArray, lo, mid, acc)
       IN IF left = << >> THEN left
          ELSE reduceMerge(colorArray, mid, hi, left)

mergedColors(colorArray) ==
  reduceMerge(colorArray, 0, Length(colorArray), << >>)

RECURSIVE sumCounts(_)
sumCounts(merged) ==
  IF merged = << >> THEN 0
  ELSE merged[1].count + sumCounts(Tail(merged))

\* asPercent that always appends the unit
asPercentAlways(pcnt) == [val |-> pcnt, unit |-> "%"]

\* a printed percentage: the number and its unit
asPercent(pcnt) ==
  IF pcnt[1] = 0 THEN [val |-> pcnt, unit |-> ""]
  ELSE [val |-> pcnt, unit |-> "%"]

\* stopPercentage that never rounds, as in the earlier revisions of the
\* script
stopPercentageUnrounded(cumulativeWidth, totalWidth, percision) ==
  Num(cumulativeWidth * 100, totalWidth)

\* cumulativeWidth / totalWidth * 100, rounded when a precision is set
stopPercentage(cumulativeWidth, totalWidth, percision) ==
  IF percision >= 0
  THEN parseFloat(toFixed(cumulativeWidth * 100, totalWidth, percision),
                  percision)
  ELSE Num(cumulativeWidth * 100, totalWidth)

RECURSIVE mapStops(_, _, _, _, _, _)
mapStops(merged, j, cumulativeWidth, totalWidth, widthPerColor, percision) ==
  IF j > Len(merged) THEN << >>
  ELSE LET startPercentage ==
             stopPercentage(cumulativeWidth, totalWidth, percision)
           cumulative == cumulativeWidth + merged[j].count * widthPerColor
           endPercentage == stopPercentage(cumulative, totalWidth, percision)
           code == [color |-> merged[j].color,
                    pos |-> IF endPercentage # <<100, 1>>
                            THEN << asPercent(startPercentage),
                                    asPercent(endPercentage) >>
                            ELSE << asPercent(startPercentage) >>]
       IN << code >> \o mapStops(merged, j + 1, cumulative, totalWidth,
                                 widthPerColor, percision)

\* createLinearGradient without the single-run case, as in the earlier
\* revisions of the script
createLinearGradientStopsOnly(colorArray, widthPerColor, percision) ==
  LET merged == mergedColors(colorArray)
      totalWidth == sumCounts(merged) * widthPerColor
  IN mapStops(merged, 1, 0, totalWidth, widthPerColor, percision)

\* the comma separated stops of linear-gradient(90deg, ...)
createLinearGradient(colorArray, widthPerColor, percision) ==
  LET merged == mergedColors(colorArray)
      totalWidth == sumCounts(merged) * widthPerColor
  IN IF Len(merged) = 1
     THEN << [color |-> merged[1].color, pos |-> << >>],
             [color |-> merged[1].color, pos |-> << >>] >>
     ELSE mapStops(merged, 1, 0, totalWidth, widthPerColor, percision)

----------------------------------------------------------------------------
(* AnimationData *)

\* Slot that drops the frame index
SlotSharedFrame(frameIndex, x, y) == << 0, y, x >>

\* the storage slot this.frames[frameIndex][y][x]
Slot(frameIndex, x, y) == << frameIndex, y, x >>

addFrameColor(frames, frameIndex, x, y, colorHex) ==
  LET s == Slot(frameIndex, x, y)
      f1 == IF s[1] \in DOMAIN frames THEN frames
            ELSE SetAt(frames, s[1], EmptyArray)
      f2 == IF s[2] \in DOMAIN f1[s[1]] THEN f1
            ELSE SetAt(f1, s[1], SetAt(f1[s[1]], s[2], EmptyArray))
  IN SetAt(f2, s[1],
       SetAt(f2[s[1]], s[2],
         SetAt(f2[s[1]][s[2]], s[3], minimizeHexColor(colorHex))))

\* row.join(","), the text of a row inside frame.join("")
RECURSIVE rowToString(_, _)
rowToString(row, x) ==
  IF x >= Length(row) THEN << >>
  ELSE (IF x = 0 THEN << >> ELSE << Comma >>)
       \o (IF x \in DOMAIN row THEN row[x] ELSE << >>)
       \o rowToString(row, x + 1)

\* frame.join("")
RECURSIVE frameJoin(_, _)
frameJoin(frame, y) ==
  IF y >= Length(frame) THEN << >>
  ELSE (IF y \in DOMAIN frame THEN rowToString(frame[y], 0) ELSE << >>)
       \o frameJoin(frame, y + 1)

\* precisionCollapse that compares with the previous index instead of the next
precisionCollapsePrevious(index, frameCount, precision) ==
  /\ precision >= 0
  /\ index > 0
  /\ toFixed((index - 1) * 100, frameCount, precision)
       = toFixed(index * 100, frameCount, precision)

\* precisionCollapse that never suppresses
precisionCollapseOff(index, frameCount, precision) == FALSE

\* next.toFixed(precision) === percentage
precisionCollapse(index, frameCount, precision) ==
  /\ precision >= 0
  /\ toFixed((index + 1) * 100, frameCount, precision)
       = toFixed(index * 100, frameCount, precision)

\* contentCollapse that never suppresses, as in the first revision of the script
contentCollapseOff(frameString, lastFrameString) == FALSE

\* frameString === lastFrameString
contentCollapse(frameString, lastFrameString) ==
  frameString = lastFrameString

\* keyframePercentage that prints where the frame ends instead of where it
\* starts
keyframePercentageOfNext(index, frameCount, precision) ==
  IF precision >= 0
  THEN parseFloat(toFixed((index + 1) * 100, frameCount, precision), precision)
  ELSE Num((index + 1) * 100, frameCount)

\* the percentage printed in front of a keyframe rule
keyframePercentage(index, frameCount, precision) ==
  IF precision >= 0
  THEN parseFloat(toFixed(index * 100, frameCount, precision), precision)
  ELSE Num(index * 100, frameCount)

\* the empty text returned for a suppressed frame
NoRule == [emitted |-> FALSE, percentage |-> <<0, 1>>, images |-> << >>]

\* keyframeCallback that compares the contents first, so that a frame left
\* out by the precision collapse still becomes the lastFrameString
keyframeCallbackContentFirst(frames, index, precision, st) ==
  LET frame == frames[index]
      frameString == frameJoin(frame, 0)
  IN IF contentCollapse(frameString, st.last)
     THEN [last |-> st.last, keyframes |-> Append(st.keyframes, NoRule)]
     ELSE IF precisionCollapse(index, Length(frames), precision)
     THEN [last |-> frameString, keyframes |-> Append(st.keyframes, NoRule)]
     ELSE [last |-> frameString,
           keyframes |-> Append(st.keyframes,
             [emitted |-> TRUE,
              percentage |->
                keyframePercentage(index, Length(frames), precision),
              images |->
                [r \in 1 .. Length(frame) |->
                   IF (r - 1) \in DOMAIN frame
                   THEN createLinearGradient(frame[r - 1], 1, precision)
                   ELSE << >>]])]

\* one call of the callback of this.frames.map, from the lastFrameString and
\* the texts returned so far
keyframeCallback(frames, index, precision, st) ==
  LET frame == frames[index]
      frameString == frameJoin(frame, 0)
  IN IF precisionCollapse(index, Length(frames), precision)
     THEN [last |-> st.last, keyframes |-> Append(st.keyframes, NoRule)]
     ELSE IF contentCollapse(frameString, st.last)
     THEN [last |-> st.last, keyframes |-> Append(st.keyframes, NoRule)]
     ELSE [last |-> frameString,
           keyframes |-> Append(st.keyframes,
             [emitted |-> TRUE,
              percentage |->
                keyframePercentage(index, Length(frames), precision),
              images |->
                [r \in 1 .. Length(frame) |->
                   IF (r - 1) \in DOMAIN frame
                   THEN createLinearGradient(frame[r - 1], 1, precision)
                   ELSE << >>]])]

\* this.frames.map over the indices lo .. hi - 1, in index order; a hole is
\* skipped; the range is halved and the first half evaluated before the second
\* one starts, only to keep the evaluation shallow
RECURSIVE mapFrames(_, _, _, _, _)
mapFrames(frames, precision, lo, hi, st) ==
  IF hi <= lo THEN st
  ELSE IF hi = lo + 1
  THEN IF lo \in DOMAIN frames
       THEN keyframeCallback(frames, lo, precision, st)
       ELSE [last |-> st.last, keyframes |-> Append(st.keyframes, NoRule)]
  ELSE LET mid == (lo + hi) \div 2
           left == mapFrames(frames, precision, lo, mid, st)
       IN IF left.keyframes = << >> THEN left
          ELSE mapFrames(frames, precision, mid, hi, left)

\* entry index + 1 is the text returned for frame index
generateCSS(frames, precision) ==
  mapFrames(frames, precision, 0, Length(frames),
            [last |-> << >>, keyframes |-> << >>]).keyframes

----------------------------------------------------------------------------
(* processFrameData *)

\* the hex text of the pixel starting at byte i of the decoded buffer
colorHexAt(data, i) ==
  toHex2(data[i + 1]) \o toHex2(data[i + 2]) \o toHex2(data[i + 3])

\* the loop over the decoded buffer: the model after it, the slots it wrote,
\* and whether it ended in the TypeError of reading past the buffer
RECURSIVE processFrameLoop(_, _, _, _, _, _, _)
processFrameLoop(data, frameIndex, frames, frameWidth, i, pixelIndex, slots) ==
  IF i >= Len(data)
  THEN [frames |-> frames, slots |-> slots, threw |-> FALSE]
  ELSE IF i + 2 >= Len(data)
  THEN [frames |-> frames, slots |-> slots, threw |-> TRUE]
  ELSE LET y == pixelIndex \div frameWidth
           x == pixelIndex % frameWidth
       IN processFrameLoop(data, frameIndex,
            addFrameColor(frames, frameIndex, x, y, colorHexAt(data, i)),
            frameWidth, i + 3, pixelIndex + 1,
            slots \cup { Slot(frameIndex, x, y) })

processFrameData(data, frameIndex, frames, frameWidth) ==
  processFrameLoop(data, frameIndex, frames, frameWidth, 0, 0, {})

----------------------------------------------------------------------------
(* State *)

VARIABLES
  pc,                   \* position of main
  frameFiles,           \* decoded RGB buffer of frame file index + 1
  videoWidth,           \* frame width handed to processVideoFrames
  videoHeight,          \* frame height handed to processVideoFrames
  maxConcurrentFrames,  \* concurrency of the p-limit queue
  precision,            \* decimals of the percentages, -1 for unlimited
  tasks,                \* state of the population task of each frame index
  animationData,        \* animationData.frames
  progress,             \* value of frameProgressBar
  writeLog,             \* slots each task has passed to addFrameColor
  keyframes,            \* result of this.frames.map in generateCSS
  colorArray,           \* row handed to createLinearGradient
  runs,                 \* its mergedColors
  gradient,             \* its stops
  hexColors,            \* colorHex values handed to minimizeHexColor
  minimized             \* what minimizeHexColor returned for each

vars == << pc, frameFiles, videoWidth, videoHeight, maxConcurrentFrames,
           precision, tasks, animationData, progress, writeLog, keyframes,
           colorArray, runs, gradient, hexColors, minimized >>

colorVars == << hexColors, minimized >>
rowVars == << colorArray, runs, gradient, colorVars >>
taskVars == << tasks, progress, writeLog >>

----------------------------------------------------------------------------
(* Inputs *)

RECURSIVE Flatten(_)
Flatten(pixels) ==
  IF pixels = << >> THEN << >> ELSE pixels[1] \o Flatten(Tail(pixels))

\* every well-formed buffer of a w x h frame over the palette
Buffers(w, h) == { Flatten(px) : px \in [1 .. (w * h) -> Palette] }

\* the palette shifted by s along the pixels of a w x h frame
PatternBuffer(w, h, s) ==
  LET order == << <<17, 17, 17>>, <<33, 17, 17>>, <<17, 18, 17>> >>
  IN Flatten([p \in 1 .. (w * h) |-> order[((p + s) % 3) + 1]])

SmallDims == { <<1, 1>>, <<2, 1>>, <<1, 2>> }
TaskDims == { <<1, 2>>, <<2, 2>> }

\* the palette as stored by addFrameColor
StoredPalette ==
  { minimizeHexColor(toHex2(c[1]) \o toHex2(c[2]) \o toHex2(c[3])) :
      c \in Palette }

Repeat(v, k) == [j \in 1 .. k |-> v]

\* the model after populating the frames lo .. hi - 1 one after the other in
\* index order
RECURSIVE populate(_, _, _, _, _)
populate(files, frameWidth, lo, hi, frames) ==
  IF hi <= lo THEN frames
  ELSE IF hi = lo + 1
  THEN processFrameData(files[lo + 1], lo, frames, frameWidth).frames
  ELSE LET mid == (lo + hi) \div 2
           left == populate(files, frameWidth, lo, mid, frames)
       IN IF left = EmptyArray THEN left
          ELSE populate(files, frameWidth, mid, hi, left)

----------------------------------------------------------------------------
(* main: population by processVideoFrames, then createHTML *)

Init ==
  /\ pc = "main"
  /\ \E n \in 1 .. MaxTasks, d \in TaskDims :
       /\ videoWidth = d[1]
       /\ videoHeight = d[2]
       /\ frameFiles \in [1 .. n -> { PatternBuffer(d[1], d[2], s) : s \in 0 .. 2 }]
       /\ tasks = [t \in 0 .. (n - 1) |-> "new"]
       /\ writeLog = [t \in 0 .. (n - 1) |-> {}]
  /\ maxConcurrentFrames \in 1 .. MaxConcurrent
  /\ precision \in Precisions
  /\ animationData = EmptyArray
  /\ progress = 0
  /\ keyframes = << >>
  /\ colorArray = EmptyArray
  /\ runs = << >>
  /\ gradient = << >>
  /\ hexColors = << >>
  /\ minimized = << >>

activeCount(ts) == Cardinality({ t \in DOMAIN ts : ts[t] = "decoding" })

\* p-limit: the oldest queued task starts when a slot is free
startNext(ts) ==
  IF activeCount(ts) < maxConcurrentFrames /\ \E t \in DOMAIN ts : ts[t] = "queued"
  THEN LET t == CHOOSE t \in DOMAIN ts :
                  /\ ts[t] = "queued"
                  /\ \A u \in DOMAIN ts : ts[u] = "queued" => t <= u
       IN [ts EXCEPT ![t] = "decoding"]
  ELSE ts

\* frameFiles.map(limitConcurrency(...)): the first tasks start decoding,
\* the others wait in the queue
schedule(ts) ==
  [t \in DOMAIN ts |-> IF t < maxConcurrentFrames THEN "decoding" ELSE "queued"]

\* promiseAllFulfilled that also goes on after a failure, as with the
\* try / catch around Promise.all in the first revision of the script
promiseAllFulfilledOrCaught(ts) ==
  \/ \A t \in DOMAIN ts : ts[t] = "done"
  \/ \E t \in DOMAIN ts : ts[t] = "failed"

\* Promise.all(frameProcessingPromises) is fulfilled / rejected
promiseAllFulfilled(ts) == \A t \in DOMAIN ts : ts[t] = "done"
promiseAllRejected(ts) == \E t \in DOMAIN ts : ts[t] = "failed"

\* a promise reaction of main is due: it runs before any further I/O callback
reactionPending ==
  \/ pc \in {"main", "createHTML"}
  \/ pc = "awaitAll" /\ (promiseAllFulfilled(tasks) \/ promiseAllRejected(tasks))

\* main up to await Promise.all
ProcessVideoFrames ==
  /\ pc = "main"
  /\ pc' = "awaitAll"
  /\ tasks' = schedule(tasks)
  /\ UNCHANGED << frameFiles, videoWidth, videoHeight, maxConcurrentFrames,
                  precision, animationData, progress, writeLog, keyframes, rowVars >>

\* sharp resolves with the buffer of frame t: processFrameData stores its
\* pixels, the progress bar advances and the queue moves on
FrameDecoded(t) ==
  /\ ~ reactionPending
  /\ tasks[t] = "decoding"
  /\ LET r == processFrameData(frameFiles[t + 1], t, animationData, videoWidth)
     IN /\ animationData' = r.frames
        /\ writeLog' = [writeLog EXCEPT ![t] = r.slots]
        /\ progress' = IF r.threw THEN progress ELSE progress + 1
        /\ tasks' = startNext([tasks EXCEPT
                                 ![t] = IF r.threw THEN "failed" ELSE "done"])
  /\ UNCHANGED << pc, frameFiles, videoWidth, videoHeight, maxConcurrentFrames,
                  precision, keyframes, rowVars >>

\* sharp rejects for frame t: nothing is stored, the queue moves on
DecodeFailed(t) ==
  /\ ~ reactionPending
  /\ tasks[t] = "decoding"
  /\ tasks' = startNext([tasks EXCEPT ![t] = "failed"])
  /\ UNCHANGED << pc, frameFiles, videoWidth, videoHeight, maxConcurrentFrames,
                  precision, animationData, progress, writeLog, keyframes, rowVars >>

\* await Promise.all is fulfilled: processVideoFrames returns animationData
PopulationFulfilled ==
  /\ pc = "awaitAll"
  /\ promiseAllFulfilled(tasks)
  /\ pc' = "createHTML"
  /\ UNCHANGED << frameFiles, videoWidth, videoHeight, maxConcurrentFrames,
                  precision, taskVars, animationData, keyframes, rowVars >>

\* await Promise.all throws: processVideoFrames and main reject
PopulationRejected ==
  /\ pc = "awaitAll"
  /\ ~ promiseAllFulfilled(tasks)
  /\ promiseAllRejected(tasks)
  /\ pc' = "rejected"
  /\ UNCHANGED << frameFiles, videoWidth, videoHeight, maxConcurrentFrames,
                  precision, taskVars, animationData, keyframes, rowVars >>

\* createHTML: the read pass of generateCSS over the model
CreateHTML ==
  /\ pc = "createHTML"
  /\ keyframes' = generateCSS(animationData, precision)
  /\ pc' = "done"
  /\ UNCHANGED << frameFiles, videoWidth, videoHeight, maxConcurrentFrames,
                  precision, taskVars, animationData, rowVars >>

Next ==
  \/ ProcessVideoFrames
  \/ \E t \in DOMAIN tasks : FrameDecoded(t)
  \/ \E t \in DOMAIN tasks : DecodeFailed(t)
  \/ PopulationFulfilled
  \/ PopulationRejected
  \/ CreateHTML

Spec == Init /\ [][Next]_vars

----------------------------------------------------------------------------
(* main on one frame file whose decoded buffer has any length *)

\* what sharp hands over when the file does not have the sampled width and
\* height or does not have three channels: any number of bytes
AnyBuffers == UNION { [1 .. k -> {17, 33}] : k \in 0 .. MaxBytes }

InitFrame ==
  /\ pc = "main"
  /\ \E d \in SmallDims :
       /\ videoWidth = d[1]
       /\ videoHeight = d[2]
  /\ frameFiles \in [1 .. 1 -> AnyBuffers]
  /\ tasks = [t \in 0 .. 0 |-> "new"]
  /\ writeLog = [t \in 0 .. 0 |-> {}]
  /\ maxConcurrentFrames = 1
  /\ precision \in Precisions
  /\ animationData = EmptyArray
  /\ progress = 0
  /\ keyframes = << >>
  /\ colorArray = EmptyArray
  /\ runs = << >>
  /\ gradient = << >>
  /\ hexColors = << >>
  /\ minimized = << >>

SpecFrame == InitFrame /\ [][Next]_vars

----------------------------------------------------------------------------
(* generateCSS on every fully populated model of the input families *)

\* short animations of every content, the animation of no frame that a
\* video without frames leaves behind, and long ones that cycle through three
\* 1 x 1 pictures, holding each for period frames
GenInputs ==
  UNION { { [width |-> d[1], height |-> d[2], files |-> f] :
              f \in UNION { [1 .. n -> Buffers(d[1], d[2])] :
                              n \in 0 .. MaxFrames } } :
          d \in SmallDims }
  \cup
  { [width |-> 1, height |-> 1,
     files |-> [i \in 1 .. n |-> cyc[((i - 1) \div period) % 3]]] :
      n \in LongCounts, period \in 1 .. MaxPeriod,
      cyc \in [0 .. 2 -> Buffers(1, 1)] }

InitGen ==
  /\ pc = "createHTML"
  /\ \E inp \in GenInputs :
       /\ videoWidth = inp.width
       /\ videoHeight = inp.height
       /\ frameFiles = inp.files
       /\ animationData = populate(inp.files, inp.width, 0, Len(inp.files), EmptyArray)
       /\ tasks = [t \in 0 .. (Len(inp.files) - 1) |-> "done"]
       /\ writeLog = [t \in 0 .. (Len(inp.files) - 1) |->
                        processFrameData(inp.files[t + 1], t, EmptyArray,
                                         inp.width).slots]
       /\ progress = Len(inp.files)
  /\ maxConcurrentFrames = 1
  /\ precision \in Precisions
  /\ keyframes = << >>
  /\ colorArray = EmptyArray
  /\ runs = << >>
  /\ gradient = << >>
  /\ hexColors = << >>
  /\ minimized = << >>

SpecGen == InitGen /\ [][CreateHTML]_vars

----------------------------------------------------------------------------
(* createLinearGradient on every row of the input families *)

\* short rows of every content, and wide rows of two or three runs whose
\* middle run is long
RowInputs ==
  UNION { [1 .. w -> StoredPalette] : w \in 1 .. MaxWidth }
  \cup
  { Repeat(c[1], r1) \o Repeat(c[2], r2) \o Repeat(c[3], r3) :
      c \in [1 .. 3 -> StoredPalette],
      r1 \in 1 .. 2, r2 \in LongRuns, r3 \in 0 .. 2 }

InitRow ==
  /\ pc = "row"
  /\ \E row \in RowInputs : colorArray = ArrayOf(row)
  /\ precision \in Precisions
  /\ runs = << >>
  /\ gradient = << >>
  /\ hexColors = << >>
  /\ minimized = << >>
  /\ frameFiles = << >>
  /\ videoWidth = 0
  /\ videoHeight = 0
  /\ maxConcurrentFrames = 1
  /\ tasks = EmptyArray
  /\ animationData = EmptyArray
  /\ progress = 0
  /\ writeLog = EmptyArray
  /\ keyframes = << >>

CreateLinearGradient ==
  /\ pc = "row"
  /\ runs' = mergedColors(colorArray)
  /\ gradient' = createLinearGradient(colorArray, 1, precision)
  /\ pc' = "rowDone"
  /\ UNCHANGED << frameFiles, videoWidth, videoHeight, maxConcurrentFrames,
                  precision, taskVars, animationData, keyframes, colorArray, colorVars >>

SpecRow == InitRow /\ [][CreateLinearGradient]_vars

----------------------------------------------------------------------------
(* minimizeHexColor on every pair of colors of the input family *)

\* the colorHex strings processFrameData builds: six hexadecimal digits
HexColors == [1 .. 6 -> 0 .. MaxHexDigit]

InitColor ==
  /\ pc = "color"
  /\ hexColors \in [1 .. 2 -> HexColors]
  /\ minimized = << >>
  /\ precision = -1
  /\ colorArray = EmptyArray
  /\ runs = << >>
  /\ gradient = << >>
  /\ frameFiles = << >>
  /\ videoWidth = 0
  /\ videoHeight = 0
  /\ maxConcurrentFrames = 1
  /\ tasks = EmptyArray
  /\ animationData = EmptyArray
  /\ progress = 0
  /\ writeLog = EmptyArray
  /\ keyframes = << >>

MinimizeHexColor ==
  /\ pc = "color"
  /\ minimized' = [k \in 1 .. 2 |-> minimizeHexColor(hexColors[k])]
  /\ pc' = "colorDone"
  /\ UNCHANGED << frameFiles, videoWidth, videoHeight, maxConcurrentFrames,
                  precision, taskVars, animationData, keyframes, colorArray,
                  runs, gradient, hexColors >>

SpecColor == InitColor /\ [][MinimizeHexColor]_vars

----------------------------------------------------------------------------
(* Vocabulary of the properties *)

frameCount == Len(frameFiles)

emitted(i) == keyframes[i + 1].emitted

\* pixel (x, y) of frame i as decoded: six hex digits
pixelColor(i, x, y) == colorHexAt(frameFiles[i + 1], 3 * (y * videoWidth + x))

frameHeight(i) == (Len(frameFiles[i + 1]) \div 3) \div videoWidth

\* a stored color written out with six digits
expandHex(c) ==
  IF Len(c) = 3 THEN << c[1], c[1], c[2], c[2], c[3], c[3] >> ELSE c

\* the color a gradient paints at pixel x of a row w pixels wide: the last
\* stop whose interval holds the centre of the pixel
paintedColor(g, w, x) ==
  IF g[1].pos = << >> THEN expandHex(g[1].color)
  ELSE LET centre == Num((2 * x + 1) * 100, 2 * w)
           end(j) == IF Len(g[j].pos) = 2 THEN g[j].pos[2].val ELSE <<100, 1>>
           over == { j \in 1 .. Len(g) :
                       /\ ~ Less(centre, g[j].pos[1].val)
                       /\ Less(centre, end(j)) }
       IN IF over = {} THEN << >>
          ELSE expandHex(g[CHOOSE j \in over : \A k \in over : k <= j].color)

\* the keyframe shown while frame i is due: the latest one emitted up to i
shownAt(i) ==
  LET ks == { k \in 0 .. i : emitted(k) }
  IN IF ks = {} THEN -1 ELSE CHOOSE k \in ks : \A m \in ks : m <= k

roundsAlike(i, j) ==
  toFixed(i * 100, frameCount, precision) = toFixed(j * 100, frameCount, precision)

----------------------------------------------------------------------------
(* Properties of generateCSS, under SpecGen *)

\* C1: with unlimited precision, for every frame index i the latest keyframe
\* emitted at or before i exists and its gradients, decoded row by row, paint
\* exactly the pixels of frame i.
C1_EveryFrameReproduced ==
  (pc = "done" /\ precision = -1) =>
    \A i \in 0 .. (frameCount - 1) :
      /\ shownAt(i) >= 0
      /\ \A y \in 0 .. (frameHeight(i) - 1), x \in 0 .. (videoWidth - 1) :
           paintedColor(keyframes[shownAt(i) + 1].images[y + 1], videoWidth, x)
             = pixelColor(i, x, y)

\* C2 as stated: for every precision and every two consecutive frames with
\* identical pixels, exactly one keyframe is emitted for the pair, and it
\* carries the percentage of the first frame.
C2_ExactlyOneForEqualPair ==
  pc = "done" =>
    \A i \in 0 .. (frameCount - 2) :
      frameFiles[i + 1] = frameFiles[i + 2] =>
        /\ emitted(i) # emitted(i + 1)
        /\ \A k \in {i, i + 1} :
             emitted(k) =>
               keyframes[k + 1].percentage
                 = keyframePercentage(i, frameCount, precision)

\* C2 amended: for every precision and every two consecutive frames with
\* identical pixels, at most one keyframe is emitted for the pair (none when
\* the pair repeats the content shown before it), with unlimited precision it
\* is never the second frame's, and an emitted one is printed with the first
\* frame's percentage at the configured precision.
C2_AtMostOneForEqualPair ==
  pc = "done" =>
    \A i \in 0 .. (frameCount - 2) :
      frameFiles[i + 1] = frameFiles[i + 2] =>
        /\ ~ (emitted(i) /\ emitted(i + 1))
        /\ precision = -1 => ~ emitted(i + 1)
        /\ \A k \in {i, i + 1} :
             emitted(k) =>
               keyframes[k + 1].percentage
                 = keyframePercentage(i, frameCount, precision)

\* an equal pair whose first frame fell to the precision collapse and whose
\* second frame was emitted, and an equal pair that repeats the frame before
C2_Witness ==
  /\ pc = "done"
  /\ \E i \in 1 .. (frameCount - 2) :
       /\ frameFiles[i + 1] = frameFiles[i + 2]
       /\ ~ emitted(i) /\ emitted(i + 1)
  /\ \E i \in 1 .. (frameCount - 2) :
       /\ frameFiles[i + 1] = frameFiles[i + 2]
       /\ frameFiles[i] = frameFiles[i + 1]
       /\ emitted(i - 1) /\ ~ emitted(i) /\ ~ emitted(i + 1)

\* C3 as stated: with a finite precision, when the percentages of frames i and
\* i + 1 round alike, no keyframe is emitted for the later frame i + 1.
C3_LaterFrameSuppressed ==
  (pc = "done" /\ precision >= 0) =>
    \A i \in 0 .. (frameCount - 2) :
      roundsAlike(i, i + 1) => ~ emitted(i + 1)

\* C3 amended: with a finite precision, when the percentages of frames i and
\* i + 1 round alike, no keyframe is emitted for the earlier frame i, whether
\* or not its pixels differ from what was shown before.
C3_EarlierFrameSuppressed ==
  (pc = "done" /\ precision >= 0) =>
    \A i \in 0 .. (frameCount - 2) :
      roundsAlike(i, i + 1) => ~ emitted(i)

\* a frame that differs from its emitted predecessor and is left out because
\* its percentage rounds like the next one's
C3_Witness ==
  /\ pc = "done"
  /\ precision >= 0
  /\ \E i \in 1 .. (frameCount - 2) :
       /\ roundsAlike(i, i + 1)
       /\ frameFiles[i + 1] # frameFiles[i]
       /\ emitted(i - 1)
       /\ ~ emitted(i)

\* C4: the emitted keyframe rules are in strictly ascending order of their
\* printed percentage, so no two of them share a selector.
C4_SelectorsAscending ==
  pc = "done" =>
    \A i \in 0 .. (frameCount - 1), j \in 0 .. (frameCount - 1) :
      (i < j /\ emitted(i) /\ emitted(j)) =>
        Less(keyframes[i + 1].percentage, keyframes[j + 1].percentage)

\* rules on both sides of a frame that was left out by the precision collapse
\* although its pixels differ from its predecessor's
C4_Witness ==
  /\ pc = "done"
  /\ precision >= 0
  /\ \E i \in 1 .. (frameCount - 2) :
       /\ roundsAlike(i, i + 1)
       /\ frameFiles[i + 1] # frameFiles[i]
       /\ emitted(i - 1)
       /\ emitted(i + 1)

----------------------------------------------------------------------------
(* Properties of the population phase, under Spec *)

finished(t) == tasks[t] \in {"done", "failed"}

\* the model after the stored frames were populated one by one in index order
RECURSIVE populatedInOrder(_, _)
populatedInOrder(t, frames) ==
  IF t >= frameCount THEN frames
  ELSE populatedInOrder(t + 1,
         IF tasks[t] = "done"
         THEN processFrameData(frameFiles[t + 1], t, frames, videoWidth).frames
         ELSE frames)

\* C5: the read pass of generateCSS never starts while a population task is
\* unfinished, also in the executions in which a task fails.
C5_GenerationAfterPopulation ==
  /\ pc \in {"createHTML", "done"} => \A t \in DOMAIN tasks : finished(t)
  /\ keyframes # << >> => \A t \in DOMAIN tasks : finished(t)

\* generateCSS has run on the frames of several tasks
C5_Witness ==
  /\ pc = "done"
  /\ keyframes # << >>
  /\ Cardinality(DOMAIN tasks) >= 2
  /\ maxConcurrentFrames >= 2

\* C6: processVideoFrames returns to its caller, with a result or with an
\* error, only after every scheduled task has completed, and the frames
\* stored by the sibling tasks of a failed one are what they decoded.
C6_ReturnsAfterAllTasks ==
  /\ pc \in {"createHTML", "done", "rejected"} =>
       \A t \in DOMAIN tasks : finished(t)
  /\ \A t \in DOMAIN tasks :
       tasks[t] = "done" =>
         animationData[t] =
           processFrameData(frameFiles[t + 1], t, EmptyArray, videoWidth).frames[t]

\* C7: tasks that own distinct frame indices never write the same slot, and
\* once all of them have finished the model is the one that populating the
\* frames one by one in index order gives, whatever the completion order was.
C7_DisjointSlotsSameModel ==
  /\ \A t \in DOMAIN tasks, u \in DOMAIN tasks :
       t # u => writeLog[t] \cap writeLog[u] = {}
  /\ (\A t \in DOMAIN tasks : finished(t)) =>
       animationData = populatedInOrder(0, EmptyArray)

\* a later frame is stored while an earlier one is still decoding
C7_Witness ==
  \E t \in DOMAIN tasks, u \in DOMAIN tasks :
    /\ t < u
    /\ tasks[t] = "decoding"
    /\ tasks[u] = "done"
    /\ writeLog[u] # {}

----------------------------------------------------------------------------
(* Properties of createLinearGradient, under SpecRow *)

rowWidth == Length(colorArray)

RECURSIVE expandRuns(_)
expandRuns(merged) ==
  IF merged = << >> THEN << >>
  ELSE Repeat(merged[1].color, merged[1].count) \o expandRuns(Tail(merged))

\* pixels covered by the runs before run j, and by the runs up to run j
widthBefore(j) == sumCounts(SubSeq(runs, 1, j - 1))
widthUpTo(j) == sumCounts(SubSeq(runs, 1, j))

\* the k-th percentage printed for run j before rounding is zero / is zero at
\* the configured precision
rawWidth(j, k) == IF k = 1 THEN widthBefore(j) ELSE widthUpTo(j)
rawIsZero(j, k) == rawWidth(j, k) = 0
roundsToZero(j, k) ==
  IF precision >= 0
  THEN toFixed(rawWidth(j, k) * 100, rowWidth, precision) = 0
  ELSE rawWidth(j, k) = 0

\* C8: a row whose pixels all have one color c gives exactly the two stops
\* c, c without any percentage, at every precision.
C8_UniformRowDegenerate ==
  (pc = "rowDone" /\ \A x \in DOMAIN colorArray : colorArray[x] = colorArray[0])
    => gradient = << [color |-> colorArray[0], pos |-> << >>],
                     [color |-> colorArray[0], pos |-> << >>] >>

\* a uniform row of several pixels encoded at a finite precision
C8_Witness ==
  /\ pc = "rowDone"
  /\ rowWidth >= 2
  /\ precision >= 0
  /\ \A x \in DOMAIN colorArray : colorArray[x] = colorArray[0]
  /\ Len(gradient) = 2

\* C9: the runs of the merge pass are in left-to-right order, every count is
\* at least 1, the counts add up to the row width, neighbouring runs differ
\* in color, and the runs expanded give back the row.
C9_RunsPartitionRow ==
  pc = "rowDone" =>
    /\ \A j \in 1 .. Len(runs) : runs[j].count >= 1
    /\ sumCounts(runs) = rowWidth
    /\ \A j \in 1 .. (Len(runs) - 1) : runs[j].color # runs[j + 1].color
    /\ ArrayOf(expandRuns(runs)) = colorArray

\* a row with a color that comes back after another one, and a longer run
C9_Witness ==
  /\ pc = "rowDone"
  /\ Len(runs) >= 3
  /\ runs[1].color = runs[3].color
  /\ \E j \in 1 .. Len(runs) : runs[j].count >= 2

\* C10 as stated: a percentage is printed as the bare 0 only when its value
\* before rounding is 0, never when it merely rounds to 0.
C10_BareZeroOnlyForExactZero ==
  pc = "rowDone" =>
    \A j \in 1 .. Len(gradient) :
      \A k \in 1 .. Len(gradient[j].pos) :
        gradient[j].pos[k].unit = "" => rawIsZero(j, k)

\* C10 amended: a percentage is printed as the bare 0 exactly when its value
\* after rounding to the configured precision is 0: the start of the first
\* run, and also a percentage that is non-zero before rounding and rounds
\* to 0.
C10_BareZeroIffRoundedZero ==
  pc = "rowDone" =>
    \A j \in 1 .. Len(gradient) :
      \A k \in 1 .. Len(gradient[j].pos) :
        /\ gradient[j].pos[k].unit = "" <=> roundsToZero(j, k)
        /\ gradient[j].pos[k].unit = "" => gradient[j].pos[k].val = <<0, 1>>

\* a percentage that is not 0 before rounding and is printed as the bare 0
C10_Witness ==
  /\ pc = "rowDone"
  /\ precision >= 0
  /\ \E j \in 1 .. Len(gradient) :
       \E k \in 1 .. Len(gradient[j].pos) :
         /\ gradient[j].pos[k].unit = ""
         /\ ~ rawIsZero(j, k)

----------------------------------------------------------------------------
(* C11 *)

\* both digits of every channel of a six digit color are equal
channelsDoubled(c) == c[1] = c[2] /\ c[3] = c[4] /\ c[5] = c[6]

\* C11: a six digit color whose channels each repeat one digit is minimized
\* to the three digit form, and doubling every digit of that form gives the
\* six digits back; any other six digit color is returned unchanged; so two
\* colors are minimized to the same text only when they are the same color
C11_MinimizeRoundTripsInjective ==
  pc = "colorDone" =>
    /\ \A k \in 1 .. 2 :
         IF channelsDoubled(hexColors[k])
         THEN /\ Len(minimized[k]) = 3
              /\ << minimized[k][1], minimized[k][1], minimized[k][2],
                    minimized[k][2], minimized[k][3], minimized[k][3] >>
                 = hexColors[k]
         ELSE minimized[k] = hexColors[k]
    /\ (minimized[1] = minimized[2]) <=> (hexColors[1] = hexColors[2])

\* a color that is shortened next to a different one that is kept in full
\* and starts with the digits of the short form
C11_Witness ==
  /\ pc = "colorDone"
  /\ channelsDoubled(hexColors[1])
  /\ ~ channelsDoubled(hexColors[2])
  /\ Len(minimized[1]) = 3
  /\ Len(minimized[2]) = 6
  /\ SubSeq(hexColors[2], 1, 3) = minimized[1]

----------------------------------------------------------------------------
(* C12 *)

\* C12: generateCSS called on a model of zero frames ends in an error and
\* never returns a stylesheet
C12_NoStylesheetForZeroFrames ==
  Length(animationData) = 0 => pc # "done"

----------------------------------------------------------------------------
(* C13 *)

\* the decoded buffer of frame t is not the width * height RGB triples
malformed(t) ==
  \/ Len(frameFiles[t + 1]) % 3 # 0
  \/ Len(frameFiles[t + 1]) # videoWidth * videoHeight * 3

\* frame t of the model has no row outside the height and no row that is
\* not exactly the width
noWrongRow(t) ==
  t \in DOMAIN animationData =>
    \A y \in DOMAIN animationData[t] :
      /\ y \in 0 .. (videoHeight - 1)
      /\ DOMAIN animationData[t][y] = 0 .. (videoWidth - 1)

\* C13: once processFrameData has ended for a buffer whose length is not a
\* multiple of 3 or not width * height * 3, it has ended in an error, and
\* the frame has no row of wrong length and no cell outside the frame
C13_MalformedBufferFailsCleanly ==
  \A t \in DOMAIN tasks :
    (malformed(t) /\ finished(t)) =>
      (tasks[t] = "failed" /\ noWrongRow(t))

----------------------------------------------------------------------------
(* C14 *)

\* frames i .. j were decoded to the same pixels
identicalRun(i, j) == \A m \in i .. j : frameFiles[m + 1] = frameFiles[i + 1]

\* C14: with unlimited precision no keyframe is emitted for a frame whose
\* pixels are those of the frame index before it, so a run of identical
\* frames has at most one keyframe, at its first frame; three frames whose
\* last two are identical never give three keyframes
C14_RepeatedFrameNeverEmitted ==
  (pc = "done" /\ precision = -1) =>
    /\ \A i \in 1 .. (frameCount - 1) :
         frameFiles[i + 1] = frameFiles[i] => ~ emitted(i)
    /\ \A i \in 0 .. (frameCount - 1), k \in 1 .. MaxFrames :
         (i + k <= frameCount /\ identicalRun(i, i + k - 1)) =>
           { m \in i .. (i + k - 1) : emitted(m) } \subseteq {i}
    /\ (frameCount = 3 /\ frameFiles[3] = frameFiles[2]) =>
         Cardinality({ m \in 0 .. 2 : emitted(m) }) < 3

\* a run of three identical frames after a different frame: one keyframe at
\* the first frame of the run and none at the two that repeat it
C14_Witness ==
  /\ pc = "done"
  /\ precision = -1
  /\ \E i \in 1 .. (frameCount - 3) :
       /\ frameFiles[i + 1] # frameFiles[i]
       /\ identicalRun(i, i + 2)
       /\ emitted(i)
       /\ ~ emitted(i + 1) /\ ~ emitted(i + 2)

----------------------------------------------------------------------------
(* C15 *)

\* C15: with unlimited precision and at least one frame, a keyframe is
\* emitted for frame 0, every keyframe emitted for a frame i is printed with
\* exactly i / frameCount * 100 percent, which is at least 0 and less than
\* 100, and two different 1 x 1 frames give the two rules 0% and 50%
C15_SelectorIsStartOfFrame ==
  (pc = "done" /\ precision = -1 /\ frameCount >= 1) =>
    /\ emitted(0)
    /\ \A i \in 0 .. (frameCount - 1) :
         emitted(i) =>
           /\ keyframes[i + 1].percentage[1] * frameCount
                = i * 100 * keyframes[i + 1].percentage[2]
           /\ keyframes[i + 1].percentage[2] > 0
           /\ keyframes[i + 1].percentage[1] >= 0
           /\ keyframes[i + 1].percentage[1]
                < 100 * keyframes[i + 1].percentage[2]
    /\ (/\ frameCount = 2
        /\ videoWidth = 1
        /\ Len(frameFiles[1]) = 3
        /\ frameFiles[1] # frameFiles[2]) =>
         /\ emitted(0) /\ keyframes[1].percentage = <<0, 1>>
         /\ emitted(1) /\ keyframes[2].percentage = <<50, 1>>

\* two different 1 x 1 frames, printed at 0% and 50%
C15_Witness ==
  /\ pc = "done"
  /\ precision = -1
  /\ frameCount = 2
  /\ videoWidth = 1
  /\ Len(frameFiles[1]) = 3
  /\ frameFiles[1] # frameFiles[2]
  /\ emitted(0) /\ keyframes[1].percentage = <<0, 1>>
  /\ emitted(1) /\ keyframes[2].percentage = <<50, 1>>

----------------------------------------------------------------------------
(* C16 *)

\* C16: two frames of the model, of one width and height, have the same
\* comparison key frame.join("") only if they were decoded to the same pixels
C16_EqualKeysEqualPixels ==
  pc = "done" =>
  \A i \in DOMAIN animationData, j \in DOMAIN animationData :
    (/\ Len(frameFiles[i + 1]) = Len(frameFiles[j + 1])
     /\ frameJoin(animationData[i], 0) = frameJoin(animationData[j], 0)) =>
      frameFiles[i + 1] = frameFiles[j + 1]

----------------------------------------------------------------------------
(* C17 *)

\* the comparison key of frame i
frameKey(i) == frameJoin(animationData[i], 0)

\* the latest index before i whose percentage does not round like the next
\* one's, -1 if there is none
RECURSIVE lastKept(_)
lastKept(i) ==
  IF i = 0 THEN -1
  ELSE IF ~ roundsAlike(i - 1, i) THEN i - 1
  ELSE lastKept(i - 1)

\* indices whose percentages round alike are at most this far apart
classSpan == frameCount \div 100 + 1

\* C17: with a finite precision, frame i is left out by the precision
\* collapse exactly when the percentages of i and i + 1 round to the same
\* text, whatever the index before it does; such a frame does not become the
\* key later frames are compared with, so any other frame is emitted exactly
\* when its key differs from the key of the latest frame that was not
\* left out by the precision collapse; of the frames that share one rounded
\* percentage only the last one can be emitted, and no frame whose
\* percentage rounds to 100 is emitted
C17_PrecisionCollapseLooksAhead ==
  (pc = "done" /\ precision >= 0) =>
    \A i \in 0 .. (frameCount - 1) :
      /\ roundsAlike(i, i + 1) => ~ emitted(i)
      /\ ~ roundsAlike(i, i + 1) =>
           (emitted(i) <=>
              (lastKept(i) < 0 \/ frameKey(i) # frameKey(lastKept(i))))
      /\ emitted(i) =>
           \A j \in (i + 1) .. (i + classSpan) :
             j <= frameCount - 1 => ~ roundsAlike(i, j)
      /\ toFixed(i * 100, frameCount, precision) = 100 * Pow10(precision) =>
           ~ emitted(i)

\* a frame left out by the precision collapse although its pixels are new,
\* the next frame emitted with the same pixels, and a last frame left out
\* because its percentage rounds to 100
C17_Witness ==
  /\ pc = "done"
  /\ precision >= 0
  /\ \E i \in 1 .. (frameCount - 2) :
       /\ roundsAlike(i, i + 1)
       /\ ~ roundsAlike(i + 1, i + 2)
       /\ frameFiles[i + 1] = frameFiles[i + 2]
       /\ frameFiles[i + 1] # frameFiles[i]
       /\ ~ emitted(i)
       /\ emitted(i + 1)
  /\ toFixed((frameCount - 1) * 100, frameCount, precision)
       = 100 * Pow10(precision)
  /\ ~ emitted(frameCount - 1)

----------------------------------------------------------------------------
(* C18 *)

\* the printed number v is width / rowWidth * 100 at the configured precision
positionIs(v, width) ==
  IF precision >= 0
  THEN v[1] * Pow10(precision)
         = toFixed(width * 100, rowWidth, precision) * v[2]
  ELSE v[1] * rowWidth = width * 100 * v[2]

\* width / rowWidth * 100 is 100 at the configured precision
roundsToHundred(width) ==
  IF precision >= 0
  THEN toFixed(width * 100, rowWidth, precision) = 100 * Pow10(precision)
  ELSE width = rowWidth

\* the end of stop j, 100 where it is not printed
stopEnd(j) ==
  IF Len(gradient[j].pos) = 2 THEN gradient[j].pos[2].val ELSE <<100, 1>>

\* C18: for a row of two or more runs, at every precision, there is one stop
\* per run; the first starts at 0; every later one starts at the rounded end
\* of the run before it; the positions never decrease; and the end of a run
\* is left out exactly when its rounded end percentage is 100, which it
\* always is for the last run
C18_StopsChainFromZeroToHundred ==
  (pc = "rowDone" /\ Len(runs) >= 2) =>
    /\ Len(gradient) = Len(runs)
    /\ gradient[1].pos[1].val = <<0, 1>>
    /\ Len(gradient[Len(gradient)].pos) = 1
    /\ \A j \in 1 .. Len(gradient) :
         /\ Len(gradient[j].pos) \in {1, 2}
         /\ positionIs(gradient[j].pos[1].val, widthBefore(j))
         /\ positionIs(stopEnd(j), widthUpTo(j))
         /\ Len(gradient[j].pos) = 1 <=> roundsToHundred(widthUpTo(j))
         /\ ~ Less(stopEnd(j), gradient[j].pos[1].val)
         /\ j > 1 => gradient[j].pos[1].val = stopEnd(j - 1)

\* a row of three runs at a finite precision whose second run already ends
\* at a rounded 100: its end is left out like the end of the last run
C18_Witness ==
  /\ pc = "rowDone"
  /\ precision >= 0
  /\ Len(runs) = 3
  /\ Len(gradient) = 3
  /\ Len(gradient[1].pos) = 2
  /\ Len(gradient[2].pos) = 1
  /\ Len(gradient[3].pos) = 1
  /\ gradient[3].pos[1].val = <<100, 1>>

====
